---------------------------- MODULE Spec2Model ----------------------------
(***************************************************************************)
(* A model of the cascade lending bot (cascadebot.py; BFClient.py and      *)
(* lending.py hold a second copy of the same classes and functions).       *)
(*                                                                         *)
(* The specifications share the variables:                                 *)
(*   SpecLimiter  BitfinexAPI._rate_limiter called directly, many times    *)
(*   SpecRequest  BitfinexAPI._request: limiter, nonce, retry loop         *)
(*   Spec         go() and adjust_offers against an exchange               *)
(*   SpecFlags    Spec under every setting of LEND_USD and LEND_BTC        *)
(*   SpecRate     Offer.get_new_rate called directly                       *)
(*   SpecOffers   BitfinexAPI.get_offers called directly                   *)
(*   SpecAdjust   adjust_offers called directly                            *)
(* Time is counted in whole seconds in SpecLimiter and SpecRequest.        *)
(***************************************************************************)
EXTENDS Integers, Sequences, FiniteSets, TLC

VARIABLES
    now,                \* the wall clock read by datetime.utcnow() / time.time()
    ticks,              \* history: free advances of the clock so far
    request_timestamps, \* BitfinexAPI.request_timestamps (the deque)
    recorded,           \* history: every timestamp the limiter ever appended
    delay,              \* the argument of the limiter's last time.sleep
    limiter_calls,      \* history: number of _rate_limiter() invocations
    nonce,              \* the next value of BitfinexAPI.nonce (itertools.count)
    rpc,                \* where the current _request / _rate_limiter call stands
    caller,             \* who called _rate_limiter: "direct" or "request"
    retry_count,        \* local retry_count of _request
    attempts,           \* history: every HTTP attempt
    calls,              \* history: every logical request (call of _request)
    ex_offers,          \* the exchange: its open offers, in response order
    ex_available,       \* the exchange: available deposit balance per currency
    next_id,            \* the exchange: the id of the next offer created
    fills,              \* history: partial fills so far
    gpc,                \* where go() stands
    cycles,             \* history: poll cycles completed
    start_time,         \* go: start_time of the running cycle
    usd_offers,         \* go: usd_offers
    btc_offers,         \* go: btc_offers
    available,          \* go: (usd_available, btc_available)
    pass,               \* which adjust_offers call of go() is running
    offers,             \* adjust_offers: offers
    currency,           \* adjust_offers: currency
    idx,                \* adjust_offers: position of the running for loop
    new_offer_amounts,  \* adjust_offers: the defaultdict, in insertion order
    log,                \* history: what the running cycle requested and reported
    client,             \* which copy runs: cascadebot.py, or lending.py on BFClient.py
    probe,              \* history: the last direct call of a function and its result
    first_placed,       \* history: what the first cycle offered at the starting rate
    lend                \* config: LEND_USD and LEND_BTC, by currency

apiVars == <<request_timestamps, recorded, delay, limiter_calls, nonce, rpc,
             caller, retry_count, attempts, calls, ticks>>

limiterVars == <<request_timestamps, recorded, delay>>
requestVars == <<nonce, retry_count, attempts, calls>>

exVars == <<ex_offers, ex_available, next_id, fills>>
goVars == <<gpc, cycles, start_time, usd_offers, btc_offers, available>>
passVars == <<pass, offers, currency, idx, new_offer_amounts>>
inVars == <<client, probe, first_placed, lend>>
botVars == <<exVars, goVars, passVars, log, inVars>>

vars == <<now, apiVars, botVars>>

\* No function has been called directly.
NoProbe == [op |-> "none"]

\* The two copies of the program in the repository.
Clients == {"cascadebot", "BFClient"}

(***************************************************************************)
(* Program constants.                                                      *)
(***************************************************************************)
rate_limit_interval == 70
max_requests_per_interval == 60

(***************************************************************************)
(* Bounds of the model.                                                    *)
(***************************************************************************)
StartTime == 5          \* int(time.time()) when BitfinexAPI is constructed
MaxCalls == 63          \* SpecLimiter: direct calls of _rate_limiter
MaxTicks == 1           \* free advances of the clock between calls
MaxOversleep == 1       \* time.sleep(d) returns after d .. d + MaxOversleep
MaxRequests == 2        \* SpecRequest: logical requests
MaxRetries == 3         \* retried attempts of one request
MaxInitOffers == 2      \* Spec: offers open on the exchange when go() starts
MaxFills == 1           \* Spec: partial fills by borrowers
MaxIntervals == 3       \* SpecRate: reduction intervals an offer has aged
MaxRate == 4            \* SpecRate: the highest rate of an offer, in grains
MaxResponse == 2        \* SpecOffers: entries of an /v1/offers response
MaxGiven == 2           \* SpecAdjust: offers handed to adjust_offers
MaxCycles == 6          \* Spec: poll cycles
DecimalDigits == 2      \* significant digits a Decimal operation keeps (Python: 28)


(***************************************************************************)
(* The clock.  Between two calls it advances by one second, by one second  *)
(* less than the limiter's interval, or by the interval.                   *)
(***************************************************************************)
TickSteps == {1, rate_limit_interval - 1, rate_limit_interval}

Tick ==
    /\ rpc \in {"idle", "admitted"}
    /\ ticks < MaxTicks
    /\ \E d \in TickSteps : now' = now + d
    /\ ticks' = ticks + 1
    /\ UNCHANGED <<limiterVars, requestVars, rpc, caller, limiter_calls, botVars>>

(***************************************************************************)
(* BitfinexAPI._rate_limiter                                               *)
(***************************************************************************)
\* while timestamps and timestamps[0] < expire: timestamps.popleft()
RECURSIVE Evict(_, _)
Evict(timestamps, expire) ==
    IF timestamps # <<>> /\ Head(timestamps) < expire
    THEN Evict(Tail(timestamps), expire)
    ELSE timestamps

\* Mutant of AtCap: the comparison off by one.
AtCapOffByOne(timestamps) == Len(timestamps) > max_requests_per_interval

\* if len(timestamps) >= self.max_requests_per_interval
AtCap(timestamps) == Len(timestamps) >= max_requests_per_interval

\* Mutant of SleepDelay: the sleep lasts the whole interval.
SleepWholeInterval(timestamps, expire) == rate_limit_interval

\* delay = (timestamps[0] - expire).total_seconds()
SleepDelay(timestamps, expire) == Head(timestamps) - expire

\* A caller other than _request invokes _rate_limiter().
LimiterCall ==
    /\ rpc = "idle"
    /\ limiter_calls < MaxCalls
    /\ rpc' = "limiter"
    /\ caller' = "direct"
    /\ limiter_calls' = limiter_calls + 1
    /\ UNCHANGED <<now, ticks, limiterVars, requestVars, botVars>>

\* One iteration of the limiter's `while True`: read the clock, evict, and
\* either sleep and stay in the loop or leave it.
_rate_limiter ==
    /\ rpc = "limiter"
    /\ LET expire == now - rate_limit_interval
           timestamps == Evict(request_timestamps, expire)
       IN  /\ request_timestamps' = timestamps
           /\ IF AtCap(timestamps)
              THEN /\ delay' = SleepDelay(timestamps, expire)
                   /\ \E over \in 0..MaxOversleep : now' = now + delay' + over
                   /\ rpc' = "limiter"
              ELSE /\ rpc' = "admitted"
                   /\ UNCHANGED <<now, delay>>
    /\ UNCHANGED <<ticks, recorded, requestVars, caller, limiter_calls, botVars>>

\* timestamps.append(datetime.utcnow()): a second reading of the clock.
record_timestamp ==
    /\ rpc = "admitted"
    /\ request_timestamps' = Append(request_timestamps, now)
    /\ recorded' = Append(recorded, now)
    /\ rpc' = IF caller = "request" THEN "sign" ELSE "idle"
    /\ UNCHANGED <<now, ticks, delay, requestVars, caller, limiter_calls, botVars>>

\* BitfinexAPI.__init__: the nonce counter starts at int(time.time()).
InitApi ==
    /\ ticks = 0
    /\ request_timestamps = <<>>
    /\ recorded = <<>>
    /\ delay = 0
    /\ limiter_calls = 0
    /\ nonce = now
    /\ rpc = "idle"
    /\ caller = "direct"
    /\ retry_count = 0
    /\ attempts = <<>>
    /\ calls = <<>>

\* go() before its first cycle.
InitGo ==
    /\ gpc = "get_offers"
    /\ cycles = 0
    /\ start_time = now
    /\ usd_offers = <<>>
    /\ btc_offers = <<>>
    /\ available = <<0, 0>>
    /\ pass = "USD"
    /\ offers = <<>>
    /\ currency = "USD"
    /\ idx = 1
    /\ new_offer_amounts = <<>>
    /\ log = <<>>
    /\ fills = 0
    /\ probe = NoProbe
    /\ first_placed = [c \in {"USD", "BTC"} |-> 0]

\* The setting in which the bot lends both currencies.
BothCurrencies == [c \in {"USD", "BTC"} |-> TRUE]

\* SpecLimiter and SpecRequest: one BitfinexAPI and an exchange without offers.
Init ==
    /\ now = StartTime
    /\ InitApi
    /\ InitGo
    /\ ex_offers = <<>>
    /\ ex_available = [c \in {"USD", "BTC"} |-> 0]
    /\ next_id = 1
    /\ client = "cascadebot"
    /\ lend = BothCurrencies

(***************************************************************************)
(* BitfinexAPI._request (BFClient.py: _request and _get, the same code     *)
(* around requests.post and requests.get).                                 *)
(***************************************************************************)
\* What one requests.post does: it raises ConnectionError or returns a
\* Response with a status code and a body that is JSON or not.
Statuses == {200, 201, 404, 500}

NoResponse == [kind |-> "None", status_code |-> 0, json |-> FALSE]

Outcomes ==
    {[kind |-> "ConnectionError", status_code |-> 0, json |-> FALSE]}
    \cup [kind : {"Response"}, status_code : Statuses, json : BOOLEAN]

\* Response.raise_for_status() raises HTTPError for a 4xx or 5xx status.
raise_for_status(response) ==
    400 <= response.status_code /\ response.status_code < 600

\* bool(request): None is false, and a Response is true when it is ok, that
\* is when raise_for_status() would not raise.
truth(response) == response.kind = "Response" /\ ~raise_for_status(response)

\* if request and request.status_code == 500
is_500(response) == truth(response) /\ response.status_code = 500

\* delay = 2 ** retry_count
backoff(count) == 2 ^ count

\* Mutant of next_nonce: the counter does not advance.
next_nonce_stuck(n) == n

\* next(self.nonce) on itertools.count: the counter after yielding n.
next_nonce(n) == n + 1

\* The nonce of a call that has not drawn one yet.
Unsigned == -1

\* Mutant of request_call: the call of the limiter is left out.
request_call_no_limiter ==
    /\ rpc = "idle"
    /\ Len(calls) < MaxRequests
    /\ rpc' = "sign"
    /\ caller' = "request"
    /\ calls' = Append(calls, [nonce |-> Unsigned, result |-> "running",
                               error |-> "", status |-> 0, sleeps |-> <<>>])
    /\ UNCHANGED <<now, ticks, limiterVars, limiter_calls, nonce, retry_count,
                   attempts, botVars>>

\* _request is called: it calls self._rate_limiter() first.
request_call ==
    /\ rpc = "idle"
    /\ Len(calls) < MaxRequests
    /\ rpc' = "limiter"
    /\ caller' = "request"
    /\ limiter_calls' = limiter_calls + 1
    /\ calls' = Append(calls, [nonce |-> Unsigned, result |-> "running",
                               error |-> "", status |-> 0, sleeps |-> <<>>])
    /\ UNCHANGED <<now, ticks, limiterVars, nonce, retry_count, attempts, botVars>>

\* After the limiter: the parameters get the nonce, the payload is signed,
\* request = None, retry_count = 0.
sign_request ==
    /\ rpc = "sign"
    /\ calls' = [calls EXCEPT ![Len(calls)].nonce = nonce]
    /\ nonce' = next_nonce(nonce)
    /\ retry_count' = 0
    /\ rpc' = "attempt"
    /\ UNCHANGED <<now, ticks, limiterVars, limiter_calls, caller, attempts, botVars>>

\* Mutant of sent_nonce: every attempt gets a nonce of its own.
sent_nonce_per_attempt(c) == calls[c].nonce + retry_count

\* requests.post(url, headers=headers): the headers built before the loop
\* hold the payload with the nonce of the call.
sent_nonce(c) == calls[c].nonce

\* One iteration of `while request is None`, and on leaving the loop the
\* rest of _request: raise_for_status() for a status other than 200, then
\* request.json().
_request ==
    /\ rpc = "attempt"
    /\ \E outcome \in Outcomes :
         LET posted == IF outcome.kind = "ConnectionError"
                       THEN NoResponse ELSE outcome
             request == IF is_500(posted) THEN NoResponse ELSE posted
             c == Len(calls)
         IN  /\ attempts' = Append(attempts,
                    [call |-> c, nonce |-> sent_nonce(c), outcome |-> outcome,
                     stamped |-> Len(recorded)])
             /\ IF request = NoResponse
                THEN /\ retry_count < MaxRetries
                     /\ now' = now + backoff(retry_count)
                     /\ calls' = [calls EXCEPT
                            ![c].sleeps = Append(@, backoff(retry_count))]
                     /\ retry_count' = retry_count + 1
                     /\ rpc' = "attempt"
                ELSE /\ calls' = [calls EXCEPT
                            ![c].status = request.status_code,
                            ![c].result =
                                IF request.status_code # 200
                                   /\ raise_for_status(request)
                                THEN "raised"
                                ELSE IF request.json THEN "returned"
                                     ELSE "raised",
                            ![c].error =
                                IF request.status_code # 200
                                   /\ raise_for_status(request)
                                THEN "HTTPError"
                                ELSE IF request.json THEN ""
                                     ELSE "ValueError"]
                     /\ rpc' = "idle"
                     /\ UNCHANGED <<now, retry_count>>
    /\ UNCHANGED <<ticks, limiterVars, limiter_calls, nonce, caller, botVars>>

NextRequest ==
    request_call \/ _rate_limiter \/ record_timestamp \/ sign_request \/ _request

SpecRequest == Init /\ [][NextRequest]_vars

NextLimiter == LimiterCall \/ _rate_limiter \/ record_timestamp \/ Tick

SpecLimiter == Init /\ [][NextLimiter]_vars

\* The limiter's loop keeps running and the clock keeps moving: a sleep of
\* zero seconds that finds the clock unchanged is followed by another look.
SpecLimiterFair ==
    SpecLimiter /\ WF_vars(_rate_limiter) /\ WF_vars(record_timestamp)

(***************************************************************************)
(* Configuration (the config module): one setting, in whole units of rate, *)
(* amount and time.  The minimum rates, decrements and multipliers are     *)
(* those BFClient.py writes into Offer.get_new_rate.                       *)
(***************************************************************************)
LEND_USD == lend["USD"]
LEND_BTC == lend["BTC"]
USD_START_RATE_PERCENT == 5
USD_MINIMUM_RATE_PERCENT == 0
USD_RATE_REDUCTION_INTERVAL == 2
USD_RATE_DECREMENT_PERCENT == 1
USD_RATE_EXPONENTIAL_DECAY_MULTIPLIER == 1
USD_LEND_PERIOD_DAYS == 2
USD_MINIMUM_LEND_AMOUNT == 2
BTC_START_RATE_PERCENT == 4
BTC_MINIMUM_RATE_PERCENT == 1
BTC_RATE_REDUCTION_INTERVAL == 2
BTC_RATE_DECREMENT_PERCENT == 1
BTC_RATE_EXPONENTIAL_DECAY_MULTIPLIER == 1
BTC_LEND_PERIOD_DAYS == 30
BTC_MINIMUM_LEND_AMOUNT == 1
POLL_INTERVAL == 2

Max(a, b) == IF a >= b THEN a ELSE b

(***************************************************************************)
(* Offer                                                                   *)
(***************************************************************************)
\* str(rate), and the texts in which the exchange writes a rate; a floating
\* rate (FRR) entry is written "0.0".
RateValues == 0..Max(USD_START_RATE_PERCENT, BTC_START_RATE_PERCENT)

str(rate) == ToString(rate)

\* Decimal(text): "0.0" and "0" are both the number 0.
Decimal(text) ==
    IF text = "0.0" THEN 0 ELSE CHOOSE n \in RateValues : str(n) = text

\* Offer.__init__: the fields of an offer dictionary of the exchange.
Offer(offer_dict) ==
    [id |-> offer_dict.id,
     currency |-> offer_dict.currency,
     rate |-> Decimal(offer_dict.rate),
     submitted_at |-> offer_dict.timestamp,
     amount |-> offer_dict.remaining_amount]

\* What a call of get_new_rate ends in: None, a rate, or an exception.
Returned(kind, rate, error) == [kind |-> kind, rate |-> rate, error |-> error]

\* A Decimal multiplier, written as a fraction, and the exact product
\* x * multiplier, a whole number on the rates the specifications draw.
Ratio(num, den) == [num |-> num, den |-> den]

Times(x, m) == (x * m.num) \div m.den

\* The result of a Decimal operation: the exact result, rounded half-even
\* to the significant digits of the context.
Abs(x) == IF x < 0 THEN -x ELSE x

RECURSIVE digits(_)
digits(n) == IF n < 10 THEN 1 ELSE 1 + digits(n \div 10)

rounded(x) ==
    LET shift == digits(Abs(x)) - DecimalDigits
        ulp == 10 ^ Max(shift, 0)
        kept == Abs(x) \div ulp
        rest == Abs(x) % ulp
        up == 2 * rest > ulp \/ (2 * rest = ulp /\ kept % 2 = 1)
        magnitude == (IF up THEN kept + 1 ELSE kept) * ulp
    IN  IF x < 0 THEN -magnitude ELSE magnitude

\* Mutant of Recognized: any currency string passes.
RecognizedAny(cur) == TRUE

\* if self.currency == "USD": ... elif self.currency == "BTC": ... else: raise
Recognized(cur) == cur \in {"USD", "BTC"}

\* cascadebot.py: the settings get_new_rate picks by the offer's currency;
\* a reduction interval is a timedelta.
DecayConfig(cur) ==
    IF cur = "USD"
    THEN [min_rate |-> USD_MINIMUM_RATE_PERCENT,
          rate_decrement |-> USD_RATE_DECREMENT_PERCENT,
          decay_multiplier |-> Ratio(USD_RATE_EXPONENTIAL_DECAY_MULTIPLIER, 1),
          decrement_interval |-> USD_RATE_REDUCTION_INTERVAL,
          interval_type |-> "timedelta"]
    ELSE [min_rate |-> BTC_MINIMUM_RATE_PERCENT,
          rate_decrement |-> BTC_RATE_DECREMENT_PERCENT,
          decay_multiplier |-> Ratio(BTC_RATE_EXPONENTIAL_DECAY_MULTIPLIER, 1),
          decrement_interval |-> BTC_RATE_REDUCTION_INTERVAL,
          interval_type |-> "timedelta"]

\* BFClient.py: the settings are written into get_new_rate; the interval is
\* the integer 1.
DecayConfigBF(cur) ==
    IF cur = "USD"
    THEN [min_rate |-> 0, rate_decrement |-> 1, decay_multiplier |-> Ratio(1, 1),
          decrement_interval |-> 1, interval_type |-> "int"]
    ELSE [min_rate |-> 1, rate_decrement |-> 1, decay_multiplier |-> Ratio(1, 1),
          decrement_interval |-> 1, interval_type |-> "int"]

\* for i in range(intervals_elapsed): the linear reduction, then the
\* exponential one.
RECURSIVE reduce(_, _, _)
reduce(new_rate, intervals, c) ==
    IF intervals <= 0
    THEN new_rate
    ELSE LET lowered == rounded(new_rate - c.rate_decrement)
             above == rounded(lowered - c.min_rate)
             decayed == rounded(Times(above, c.decay_multiplier))
         IN  reduce(rounded(decayed + c.min_rate), intervals - 1, c)

\* if self.rate <= min_rate: return None
at_floor(rate, min_rate) == rate <= min_rate

\* Mutant of linear: the decrement is applied once, whatever the age.
linear_once(rate, intervals_elapsed, c) == reduce(rate, 1, c)

\* The loop over the elapsed intervals.
linear(rate, intervals_elapsed, c) == reduce(rate, intervals_elapsed, c)

\* Mutant of clamp: the reduced rate is returned as it is.
unclamped(new_rate, min_rate) == new_rate

\* return max(new_rate, min_rate)
clamp(new_rate, min_rate) == Max(new_rate, min_rate)

\* Offer.get_new_rate under the settings c, at clock reading t.  With a
\* timedelta interval, time_elapsed // decrement_interval is an integer; with
\* an integer interval it is a timedelta, and `intervals_elapsed < 1` raises
\* TypeError.
get_new_rate_under(offer, t, c) ==
    LET intervals_elapsed == (t - offer.submitted_at) \div c.decrement_interval
    IN  IF ~Recognized(offer.currency)
        THEN Returned("raise", 0, "Unrecognized currency string")
        ELSE IF at_floor(offer.rate, c.min_rate) THEN Returned("None", 0, "")
        ELSE IF c.interval_type = "int" THEN Returned("raise", 0, "TypeError")
        ELSE IF intervals_elapsed < 1 THEN Returned("None", 0, "")
        ELSE Returned("rate",
                      clamp(linear(offer.rate, intervals_elapsed, c), c.min_rate),
                      "")

\* The settings of the running copy for an offer's currency.
ConfigOf(copy, cur) ==
    IF copy = "cascadebot" THEN DecayConfig(cur) ELSE DecayConfigBF(cur)

\* Offer.get_new_rate in the running copy.
get_new_rate(offer, t) ==
    get_new_rate_under(offer, t, ConfigOf(client, offer.currency))

(***************************************************************************)
(* The exchange, as the bot's requests see it.                             *)
(***************************************************************************)
InitRates == {4, 5}
InitAmounts == {1, 3}
InitBtcAmounts == {3}
InitAges == {USD_RATE_REDUCTION_INTERVAL, 2 * USD_RATE_REDUCTION_INTERVAL}
InitAvailable == {0, 2}

Active(id) == \E k \in DOMAIN ex_offers : ex_offers[k].id = id

ExOffer(id) == ex_offers[CHOOSE k \in DOMAIN ex_offers : ex_offers[k].id = id]

\* Mutant of Without: the offer stays open.
WithoutNone(id) == ex_offers

\* /v1/offer/cancel: the offer is no longer among the open offers.
Without(id) == SelectSeq(ex_offers, LAMBDA o : o.id # id)

\* A borrower takes part of an open offer.
ex_fill ==
    /\ fills < MaxFills
    /\ gpc # "raised"
    /\ \E k \in DOMAIN ex_offers :
         \E taken \in 1..(ex_offers[k].remaining_amount - 1) :
            ex_offers' = [ex_offers EXCEPT ![k].remaining_amount = @ - taken]
    /\ fills' = fills + 1
    /\ UNCHANGED <<now, apiVars, inVars, ex_available, next_id, goVars, passVars, log>>

\* What a request of go() ends in: _request returns the body or raises.
RequestResults == {"ok", "fatal"}

\* Mutant of uncaught: the exception is caught and the cycle goes to its sleep.
caught(at) == "sleep"

\* go() and adjust_offers have no try statement: an exception raised at any
\* place of the cycle ends go().
uncaught(at) == "raised"

Event(op, cur, id, old, rate, amount, local) ==
    [op |-> op, cur |-> cur, id |-> id, old |-> old, rate |-> rate,
     amount |-> amount, local |-> local, at |-> now]

(***************************************************************************)
(* BitfinexAPI.get_offers and go()                                         *)
(***************************************************************************)
\* Ignore swap demands and FRR offers.
is_fixed_lend(offer_dict) ==
    offer_dict.direction = "lend" /\ offer_dict.rate # "0.0"

\* BitfinexAPI.get_offers on the response offers_data: (usd_offers, btc_offers).
get_offers(offers_data) ==
    LET kept == SelectSeq(offers_data, is_fixed_lend)
        made == [k \in DOMAIN kept |-> Offer(kept[k])]
    IN  <<SelectSeq(made, LAMBDA offer : offer.currency = "USD"),
          SelectSeq(made, LAMBDA offer : offer.currency = "BTC")>>

OffersOf(cur) ==
    IF cur = "USD" THEN get_offers(ex_offers)[1] ELSE get_offers(ex_offers)[2]

\* start_time = utcnow(); usd_offers, btc_offers = api.get_offers()
go_get_offers ==
    /\ gpc = "get_offers"
    /\ cycles < MaxCycles
    /\ start_time' = now
    /\ \E result \in RequestResults :
         IF result = "ok"
         THEN /\ usd_offers' = OffersOf("USD")
              /\ btc_offers' = OffersOf("BTC")
              /\ gpc' = "adjust_usd"
              /\ log' = <<Event("list", "", 0, 0, 0, 0, 0)>>
         ELSE /\ gpc' = uncaught(gpc)
              /\ log' = <<Event("raise", "", 0, 0, 0, 0, 0)>>
              /\ UNCHANGED <<usd_offers, btc_offers>>
    /\ UNCHANGED <<now, apiVars, inVars, exVars, cycles, available, passVars>>

(***************************************************************************)
(* adjust_offers                                                           *)
(***************************************************************************)
AfterPass(p) == IF p = "USD" THEN "adjust_btc" ELSE "balances"

\* Mutant of lends: the flags are not looked at.
lends_always(cur) == TRUE

\* if LEND_USD / if LEND_BTC
lends(cur) == IF cur = "USD" THEN LEND_USD ELSE LEND_BTC

\* go() reaches `if LEND_USD:` / `if LEND_BTC:`; adjust_offers starts with
\* an empty defaultdict and returns at once when there are no offers.
adjust_offers ==
    /\ gpc \in {"adjust_usd", "adjust_btc"}
    /\ LET p == IF gpc = "adjust_usd" THEN "USD" ELSE "BTC"
           enabled == lends(p)
           given == IF p = "USD" THEN usd_offers ELSE btc_offers
       IN  /\ pass' = p
           /\ IF enabled /\ given # <<>>
              THEN /\ offers' = given
                   /\ currency' = given[1].currency
                   /\ idx' = 1
                   /\ new_offer_amounts' = <<>>
                   /\ gpc' = "cancel"
                   /\ log' = log
              ELSE /\ gpc' = AfterPass(p)
                   /\ log' = IF enabled
                             THEN Append(log, Event("done", p, 0, 0, 0, 0, 0))
                             ELSE log
                   /\ new_offer_amounts' = <<>>
                   /\ UNCHANGED <<offers, currency, idx>>
    /\ UNCHANGED <<now, apiVars, inVars, exVars, cycles, start_time, usd_offers,
                   btc_offers, available>>

\* Mutant of cancelled_amount: the amount get_offers had reported.
cancelled_amount_local(offer, cancelled_offer) == offer.amount

\* cancelled_offer.amount: the remaining amount the exchange reports.
cancelled_amount(offer, cancelled_offer) == cancelled_offer.amount

\* Mutant of Accumulate: every cancelled offer opens an entry of its own.
AccumulateNoMerge(buckets, rate, amount) ==
    Append(buckets, [rate |-> rate, amount |-> amount])

\* new_offer_amounts[new_rate] += cancelled_offer.amount
Accumulate(buckets, rate, amount) ==
    IF \E k \in DOMAIN buckets : buckets[k].rate = rate
    THEN [k \in DOMAIN buckets |->
            IF buckets[k].rate = rate
            THEN [buckets[k] EXCEPT !.amount = @ + amount]
            ELSE buckets[k]]
    ELSE Append(buckets, [rate |-> rate, amount |-> amount])

\* Mutant of exhausted: the first loop ends after its first offer.
exhausted_at_once(position, given) == TRUE

\* `for offer in offers` has reached the last offer.
exhausted(position, given) == position = Len(given)

\* Mutant of present: every result of get_new_rate is taken for a rate.
present_always(new_rate) == TRUE

\* if new_rate is not None
present(new_rate) == new_rate.kind # "None"

\* One iteration of `for offer in offers`: get_new_rate, and for a new rate
\* the cancel request and the sum into the offer's bucket.
adjust_cancel ==
    /\ gpc = "cancel"
    /\ idx <= Len(offers)
    /\ LET offer == offers[idx]
           new_rate == get_new_rate(offer, now)
           last == exhausted(idx, offers)
       IN  IF new_rate.kind = "raise"
           THEN /\ gpc' = uncaught(gpc)
                /\ log' = Append(log, Event("raise", pass, 0, 0, 0, 0, 0))
                /\ UNCHANGED <<exVars, idx, new_offer_amounts>>
           ELSE IF ~present(new_rate)
           THEN /\ idx' = IF last THEN 1 ELSE idx + 1
                /\ gpc' = IF last THEN "create" ELSE "cancel"
                /\ UNCHANGED <<exVars, new_offer_amounts, log>>
           ELSE \E result \in RequestResults :
                  IF result = "ok"
                  THEN /\ Active(offer.id)
                       /\ LET cancelled_offer == Offer(ExOffer(offer.id))
                              rate == new_rate.rate
                              amount == cancelled_amount(offer, cancelled_offer)
                          IN  /\ ex_offers' = Without(offer.id)
                              /\ ex_available' =
                                   [ex_available EXCEPT
                                      ![cancelled_offer.currency] =
                                          @ + cancelled_offer.amount]
                              /\ new_offer_amounts' =
                                   Accumulate(new_offer_amounts, rate, amount)
                              /\ log' = Append(log,
                                   Event("cancel", pass, offer.id, offer.rate, rate,
                                         cancelled_offer.amount, offer.amount)
                                   @@ [submitted_at |-> offer.submitted_at])
                       /\ idx' = IF last THEN 1 ELSE idx + 1
                       /\ gpc' = IF last THEN "create" ELSE "cancel"
                       /\ UNCHANGED <<next_id, fills>>
                  ELSE /\ gpc' = uncaught(gpc)
                       /\ log' = Append(log, Event("raise", pass, 0, 0, 0, 0, 0))
                       /\ UNCHANGED <<exVars, idx, new_offer_amounts>>
    /\ UNCHANGED <<now, apiVars, inVars, cycles, start_time, usd_offers, btc_offers,
                   available, pass, offers, currency>>

\* Mutant of clears_minimum: the comparison is not strict.
clears_minimum_or_equal(amount, minimum_amount) == amount >= minimum_amount

\* if amount > minimum_amount
clears_minimum(amount, minimum_amount) == amount > minimum_amount

minimum_amount(p) ==
    IF p = "USD" THEN USD_MINIMUM_LEND_AMOUNT ELSE BTC_MINIMUM_LEND_AMOUNT

lend_period(p) ==
    IF p = "USD" THEN USD_LEND_PERIOD_DAYS ELSE BTC_LEND_PERIOD_DAYS

\* The exchange creates an offer: /v1/offer/new.
Created(cur, amount, rate, period) ==
    [id |-> next_id, currency |-> cur, rate |-> str(rate), timestamp |-> now,
     remaining_amount |-> amount, direction |-> "lend", period |-> period]

\* One iteration of `for rate, amount in new_offer_amounts.items()`: the
\* new_offer request for a bucket above the minimum, the message for another.
adjust_create ==
    /\ gpc = "create"
    /\ IF idx > Len(new_offer_amounts)
       THEN /\ gpc' = AfterPass(pass)
            /\ log' = Append(log, Event("done", pass, 0, 0, 0, 0, 0))
            /\ UNCHANGED <<exVars, idx>>
       ELSE LET rate == new_offer_amounts[idx].rate
                amount == new_offer_amounts[idx].amount
            IN  IF clears_minimum(amount, minimum_amount(pass))
                THEN \E result \in RequestResults :
                       IF result = "ok"
                       THEN /\ ex_offers' = Append(ex_offers,
                                   Created(currency, amount, rate, lend_period(pass)))
                            /\ ex_available' =
                                   [ex_available EXCEPT ![currency] = @ - amount]
                            /\ next_id' = next_id + 1
                            /\ log' = Append(log,
                                   Event("new", pass, next_id, 0, rate, amount, 0))
                            /\ idx' = idx + 1
                            /\ gpc' = "create"
                            /\ UNCHANGED fills
                       ELSE /\ gpc' = uncaught(gpc)
                            /\ log' = Append(log, Event("raise", pass, 0, 0, 0, 0, 0))
                            /\ UNCHANGED <<exVars, idx>>
                ELSE /\ log' = Append(log, Event("skip", pass, 0, 0, rate, amount, 0))
                     /\ idx' = idx + 1
                     /\ gpc' = "create"
                     /\ UNCHANGED exVars
    /\ UNCHANGED <<now, apiVars, inVars, cycles, start_time, usd_offers, btc_offers,
                   available, pass, offers, currency, new_offer_amounts>>

(***************************************************************************)
(* go(): the balances and the offers at the starting rate                  *)
(***************************************************************************)
\* /v1/balances: one entry for each wallet and currency that holds funds.
\* The amount of the deposit wallet counts the funds in open offers too.
RECURSIVE Offered(_, _)
Offered(ds, cur) ==
    IF ds = <<>> THEN 0
    ELSE (IF Head(ds).currency = cur THEN Head(ds).remaining_amount ELSE 0)
            + Offered(Tail(ds), cur)

lower(cur) == IF cur = "USD" THEN "usd" ELSE "btc"

Deposit(cur) ==
    LET amount == ex_available[cur] + Offered(ex_offers, cur)
    IN  IF amount = 0 THEN <<>>
        ELSE <<[type |-> "deposit", currency |-> lower(cur),
                amount |-> amount, available |-> ex_available[cur]]>>

OtherWallets ==
    <<[type |-> "exchange", currency |-> "usd", amount |-> 1, available |-> 1],
      [type |-> "trading", currency |-> "btc", amount |-> 1, available |-> 1]>>

balances_data == Deposit("USD") \o Deposit("BTC") \o OtherWallets

\* The value a loop over the entries leaves in a variable set to 0 before it.
LastOf(entries, field) ==
    IF entries = <<>> THEN 0 ELSE entries[Len(entries)][field]

\* if balance_data["type"] == "deposit": if balance_data["currency"] == ...
in_deposit(balance_data, cur) ==
    balance_data.type = "deposit" /\ balance_data.currency = cur

\* BitfinexAPI.get_available_balances of the copy, on the response data:
\* cascadebot.py returns (usd_available, btc_available), BFClient.py
\* (usd_available, usd_amount).
get_available_balances(copy, data) ==
    LET usd == SelectSeq(data, LAMBDA b : in_deposit(b, "usd"))
        btc == SelectSeq(data, LAMBDA b : in_deposit(b, "btc"))
    IN  IF copy = "cascadebot"
        THEN <<LastOf(usd, "available"), LastOf(btc, "available")>>
        ELSE <<LastOf(usd, "available"), LastOf(usd, "amount")>>

\* usd_available, btc_available = api.get_available_balances()
go_balances ==
    /\ gpc = "balances"
    /\ \E result \in RequestResults :
         IF result = "ok"
         THEN /\ available' = get_available_balances(client, balances_data)
              /\ gpc' = "offer_usd"
              /\ log' = Append(log, Event("balances", "", 0, 0, 0,
                                          ex_available["USD"], ex_available["BTC"]))
         ELSE /\ gpc' = uncaught(gpc)
              /\ log' = Append(log, Event("raise", "", 0, 0, 0, 0, 0))
              /\ UNCHANGED available
    /\ UNCHANGED <<now, apiVars, inVars, exVars, cycles, start_time, usd_offers,
                   btc_offers, passVars>>

\* Mutant of reaches_minimum: the comparison is strict.
exceeds_minimum(amount, minimum) == amount > minimum

\* usd_available >= USD_MINIMUM_LEND_AMOUNT
reaches_minimum(amount, minimum) == amount >= minimum

\* Mutant of start_rate: the offer is made at the minimum rate.
start_rate_lowest(cur) == DecayConfig(cur).min_rate

\* api.new_offer("USD", usd_available, USD_START_RATE_PERCENT, ...)
start_rate(cur) ==
    IF cur = "USD" THEN USD_START_RATE_PERCENT ELSE BTC_START_RATE_PERCENT

\* if LEND_USD and usd_available >= USD_MINIMUM_LEND_AMOUNT: new_offer at
\* the starting rate; then the same for BTC.
go_new_offer ==
    /\ gpc \in {"offer_usd", "offer_btc"}
    /\ LET cur == IF gpc = "offer_usd" THEN "USD" ELSE "BTC"
           enabled == lends(cur)
           amount == IF cur = "USD" THEN available[1] ELSE available[2]
           rate == start_rate(cur)
           after == IF cur = "USD" THEN "offer_btc" ELSE "sleep"
       IN  IF enabled /\ reaches_minimum(amount, minimum_amount(cur))
           THEN \E result \in RequestResults :
                  IF result = "ok" /\ amount <= ex_available[cur]
                  THEN /\ ex_offers' = Append(ex_offers,
                              Created(cur, amount, rate, lend_period(cur)))
                       /\ ex_available' = [ex_available EXCEPT ![cur] = @ - amount]
                       /\ next_id' = next_id + 1
                       /\ log' = Append(log,
                              Event("start", cur, next_id, 0, rate, amount, 0))
                       /\ gpc' = after
                       /\ first_placed' = IF cycles = 0
                                          THEN [first_placed EXCEPT ![cur] = amount]
                                          ELSE first_placed
                       /\ UNCHANGED fills
                  ELSE /\ gpc' = uncaught(gpc)
                       /\ log' = Append(log,
                              Event("refused", cur, 0, 0, rate, amount, 0))
                       /\ UNCHANGED <<exVars, first_placed>>
           ELSE /\ gpc' = after
                /\ UNCHANGED <<exVars, log, first_placed>>
    /\ UNCHANGED <<now, apiVars, client, probe, lend, cycles, start_time, usd_offers,
                   btc_offers, available, passVars>>

\* delay = max((POLL_INTERVAL - elapsed).total_seconds(), 0); time.sleep(delay)
go_sleep ==
    /\ gpc = "sleep"
    /\ now' = now + Max(POLL_INTERVAL - (now - start_time), 0)
    /\ cycles' = cycles + 1
    /\ gpc' = "get_offers"
    /\ UNCHANGED <<apiVars, inVars, exVars, start_time, usd_offers, btc_offers,
                   available, passVars, log>>

\* The offers open on the exchange when go() starts: placed by an earlier
\* run of the bot or by hand, one or two reduction intervals ago.
InitOfferDicts ==
    [id : {0}, currency : {"USD"}, rate : {str(r) : r \in InitRates},
     timestamp : {StartTime - a : a \in InitAges},
     remaining_amount : InitAmounts, direction : {"lend"}, period : {2}]
    \cup
    [id : {0}, currency : {"BTC"}, rate : {str(BTC_START_RATE_PERCENT)},
     timestamp : {StartTime - a : a \in InitAges},
     remaining_amount : InitBtcAmounts, direction : {"lend"}, period : {2}]

InitBot ==
    /\ now = StartTime
    /\ client \in Clients
    /\ InitApi
    /\ InitGo
    /\ \E n \in 0..MaxInitOffers :
         \E ds \in [1..n -> InitOfferDicts] :
            ex_offers = [k \in 1..n |-> [ds[k] EXCEPT !.id = k]]
    /\ next_id = Len(ex_offers) + 1
    /\ \E a \in InitAvailable : ex_available = [USD |-> a, BTC |-> 0]
    /\ lend = BothCurrencies

Next ==
    \/ go_get_offers
    \/ adjust_offers
    \/ adjust_cancel
    \/ adjust_create
    \/ go_balances
    \/ go_new_offer
    \/ go_sleep
    \/ ex_fill

Spec == InitBot /\ [][Next]_vars

(***************************************************************************)
(* SpecFlags: go() of either copy under every setting of LEND_USD and      *)
(* LEND_BTC, with one open offer of each currency.                         *)
(***************************************************************************)
InitFlags ==
    /\ now = StartTime
    /\ client \in Clients
    /\ InitApi
    /\ InitGo
    /\ \E usd, btc \in InitOfferDicts :
         /\ usd.currency = "USD"
         /\ btc.currency = "BTC"
         /\ ex_offers = <<[usd EXCEPT !.id = Len(<<usd>>)],
                          [btc EXCEPT !.id = Len(<<usd, btc>>)]>>
    /\ next_id = Len(ex_offers) + 1
    /\ ex_available \in [{"USD", "BTC"} -> InitAvailable]
    /\ lend \in [{"USD", "BTC"} -> BOOLEAN]

SpecFlags == InitFlags /\ [][Next]_vars

(***************************************************************************)
(* SpecRate: Offer.get_new_rate called directly, in either copy, on offers *)
(* of any currency, rate and age.  In cascadebot.py the settings are what  *)
(* the config module holds.  Rates are whole multiples of Grain, so that   *)
(* a product with a one-digit multiplier is a whole number, once for each  *)
(* elapsed interval, before it is rounded.                                 *)
(***************************************************************************)
Grain == 10 ^ MaxIntervals

ProbeCurrencies == {"USD", "BTC", "LTC"}
ProbeRates == {Grain * n : n \in 0..MaxRate}
ProbeMultipliers == {Ratio(0, 1), Ratio(1, 10), Ratio(1, 2), Ratio(1, 1)}

ProbeConfigs ==
    [min_rate : {0, Grain},
     rate_decrement : {0, Grain, 2 * Grain},
     decay_multiplier : ProbeMultipliers,
     decrement_interval : {1, 2},
     interval_type : {"timedelta"}]

SettingsOf(copy, cur) ==
    IF copy = "cascadebot" THEN ProbeConfigs ELSE {DecayConfigBF(cur)}

probe_get_new_rate ==
    /\ probe = NoProbe
    /\ \E copy \in Clients, cur \in ProbeCurrencies, rate \in ProbeRates :
         \E c \in SettingsOf(copy, cur) :
           \E age \in 0..(MaxIntervals * c.decrement_interval) :
              LET offer == [id |-> 1, currency |-> cur, rate |-> rate,
                            submitted_at |-> now - age, amount |-> 1]
              IN  probe' = [op |-> "get_new_rate", copy |-> copy,
                            offer |-> offer, at |-> now, config |-> c,
                            result |-> get_new_rate_under(offer, now, c)]
    /\ UNCHANGED <<now, apiVars, exVars, goVars, passVars, log, client,
                   first_placed, lend>>

NextRate == probe_get_new_rate

SpecRate == Init /\ [][NextRate]_vars

(***************************************************************************)
(* SpecOffers: BitfinexAPI.get_offers on the responses the exchange can    *)
(* send: offers and demands, fixed and floating rates, other currencies.   *)
(***************************************************************************)
ResponseDicts ==
    [id : {0}, currency : ProbeCurrencies, rate : {"0.0", "3", "4"},
     timestamp : {0}, remaining_amount : {1},
     direction : {"lend", "loan"}, period : {2}]

Responses ==
    UNION {{[k \in 1..n |-> [ds[k] EXCEPT !.id = k]] : ds \in [1..n -> ResponseDicts]}
             : n \in 0..MaxResponse}

probe_get_offers ==
    /\ probe = NoProbe
    /\ \E offers_data \in Responses :
         probe' = [op |-> "get_offers", offers_data |-> offers_data,
                   result |-> get_offers(offers_data)]
    /\ UNCHANGED <<now, apiVars, exVars, goVars, passVars, log, client,
                   first_placed, lend>>

NextOffers == probe_get_offers

SpecOffers == Init /\ [][NextOffers]_vars

(***************************************************************************)
(* SpecAdjust: adjust_offers called directly with a list of offers of any  *)
(* currency that are open on the exchange.                                 *)
(***************************************************************************)
GivenDicts ==
    [id : {0}, currency : {"USD", "LTC"},
     rate : {str(USD_MINIMUM_RATE_PERCENT), str(USD_START_RATE_PERCENT)},
     timestamp : {StartTime, StartTime - USD_RATE_REDUCTION_INTERVAL},
     remaining_amount : {3}, direction : {"lend"}, period : {2}]

InitAdjust ==
    /\ now = StartTime
    /\ client \in Clients
    /\ InitApi
    /\ InitGo
    /\ \E n \in 1..MaxGiven :
         \E ds \in [1..n -> GivenDicts] :
            ex_offers = [k \in 1..n |-> [ds[k] EXCEPT !.id = k]]
    /\ next_id = Len(ex_offers) + 1
    /\ ex_available = [c \in {"USD", "BTC"} |-> 0]
    /\ lend = BothCurrencies

\* adjust_offers(api, offers, USD_LEND_PERIOD_DAYS, USD_MINIMUM_LEND_AMOUNT)
call_adjust_offers ==
    /\ gpc = "get_offers"
    /\ usd_offers' = [k \in DOMAIN ex_offers |-> Offer(ex_offers[k])]
    /\ gpc' = "adjust_usd"
    /\ UNCHANGED <<now, apiVars, inVars, exVars, cycles, start_time, btc_offers,
                   available, passVars, log>>

NextAdjust ==
    \/ call_adjust_offers
    \/ adjust_offers
    \/ adjust_cancel
    \/ adjust_create

SpecAdjust == InitAdjust /\ [][NextAdjust]_vars

(***************************************************************************)
(* C1: the timestamps recorded by the limiter never include more than      *)
(* max_requests_per_interval (60) that fall within a trailing window of    *)
(* rate_limit_interval (70) seconds.  Any 61 recorded timestamps include   *)
(* two that were recorded at least 60 calls apart, so it is enough, and    *)
(* with a non-decreasing clock the same, that two such timestamps are      *)
(* always more than 70 seconds apart.                                      *)
(***************************************************************************)
C1_WindowHoldsAtMostCap ==
    \A i \in DOMAIN recorded :
        \A j \in (i + max_requests_per_interval)..Len(recorded) :
            recorded[j] - recorded[i] > rate_limit_interval

\* A call found the window full, slept, and was recorded as the 61st.
C1_Witness ==
    /\ Len(recorded) > max_requests_per_interval
    /\ delay > 0
    /\ recorded[max_requests_per_interval + 1] - recorded[1] = rate_limit_interval + 1

(***************************************************************************)
(* C2: when 60 tracked timestamps lie within the trailing 70 seconds, a    *)
(* running _rate_limiter() call records nothing and does not return; it    *)
(* sleeps for (oldest - (now - interval)) and looks again; and it          *)
(* eventually records a timestamp and returns.                             *)
(***************************************************************************)
Tracked == {i \in DOMAIN request_timestamps :
                request_timestamps[i] >= now - rate_limit_interval}

WindowFull == Cardinality(Tracked) >= max_requests_per_interval

Oldest == request_timestamps[CHOOSE i \in Tracked : \A k \in Tracked : i <= k]

Blocked == rpc = "limiter" /\ WindowFull

C2_BlockedStep ==
    Blocked => /\ rpc' = "limiter"
               /\ recorded' = recorded
               /\ delay' = Oldest - (now - rate_limit_interval)
               /\ now' >= now + delay'

\* The call returns only by recording the clock's reading.
C2_ReturnStep ==
    (rpc # "idle" /\ rpc' = "idle") => recorded' = Append(recorded, now)

C2_BlocksThenRecords ==
    /\ [][C2_BlockedStep /\ C2_ReturnStep]_vars
    /\ Blocked ~> (rpc = "idle")

\* A call slept exactly the computed delay and finds the oldest timestamp
\* still on the edge of the window: it has to look again.
C2_Witness ==
    /\ Blocked
    /\ delay > 0
    /\ Oldest = now - rate_limit_interval

(***************************************************************************)
(* Histories of SpecRequest read by the claims.                            *)
(***************************************************************************)
AttemptsOf(c) == {k \in DOMAIN attempts : attempts[k].call = c}

Finished(c) == calls[c].result # "running"

\* An attempt that ended in what the specification calls a retryable
\* failure: a connection failure or a response with status 500.
FailedRetryably(k) ==
    \/ attempts[k].outcome.kind = "ConnectionError"
    \/ attempts[k].outcome.status_code = 500

LastAttemptOf(c) == CHOOSE k \in AttemptsOf(c) : \A m \in AttemptsOf(c) : m <= k

(***************************************************************************)
(* C3: each logical request calls _rate_limiter() exactly once, before     *)
(* its first HTTP attempt, and a retried attempt records no further        *)
(* timestamp: at every attempt of the n-th request exactly n timestamps    *)
(* have been recorded, and n finished requests have recorded n.            *)
(***************************************************************************)
C3_OneSlotPerRequest ==
    /\ limiter_calls = Len(calls)
    /\ \A k \in DOMAIN attempts : attempts[k].stamped = attempts[k].call
    /\ rpc \in {"idle", "sign", "attempt"} => Len(recorded) = Len(calls)
    /\ rpc \in {"limiter", "admitted"} => Len(recorded) = Len(calls) - 1

\* Two requests are finished, one of them after two retried attempts.
C3_Witness ==
    /\ rpc = "idle"
    /\ Len(calls) = 2
    /\ Len(recorded) = 2
    /\ \E c \in DOMAIN calls : Len(calls[c].sleeps) >= 2

(***************************************************************************)
(* C4 (as claimed): a send whose first n attempts fail retryably           *)
(* (connection failure or HTTP 500) has slept exactly 2^0, ..., 2^(n-1)    *)
(* seconds, in this order, returns the body when the next attempt answers  *)
(* 200, and the next send counts its retries from 0 again.                 *)
(***************************************************************************)
C4_BackoffThenReturn ==
    /\ \A c \in DOMAIN calls :
          LET n == Cardinality({k \in AttemptsOf(c) : FailedRetryably(k)})
          IN  /\ calls[c].sleeps = [i \in 1..n |-> 2 ^ (i - 1)]
              /\ (Finished(c) /\ calls[c].status = 200 /\ calls[c].error = "")
                     => calls[c].result = "returned"
              /\ Finished(c) => ~FailedRetryably(LastAttemptOf(c))
    /\ rpc = "attempt" => retry_count = Len(calls[Len(calls)].sleeps)

(***************************************************************************)
(* C5 (as claimed): a response with status 500 is never surfaced to the    *)
(* caller of _request: no send ends, by raising or returning, on a 500.    *)
(***************************************************************************)
C5_Never500Surfaced ==
    \A c \in DOMAIN calls : Finished(c) => calls[c].status # 500

(***************************************************************************)
(* C6 (as claimed): a response whose status is neither 200 nor 500 ends    *)
(* the send at once (no further attempt, no sleep after it) with an error  *)
(* raised to the caller, and a send returns a parsed body only for a       *)
(* response with status 200.                                               *)
(***************************************************************************)
C6_Non200Raises ==
    /\ \A k \in DOMAIN attempts :
          (attempts[k].outcome.kind = "Response"
             /\ attempts[k].outcome.status_code \notin {200, 500})
          => /\ k = LastAttemptOf(attempts[k].call)
             /\ calls[attempts[k].call].result = "raised"
    /\ \A c \in DOMAIN calls :
          calls[c].result = "returned" => calls[c].status = 200

(***************************************************************************)
(* C7: the nonce of each call is strictly greater than the nonce of every  *)
(* earlier call: the i-th call uses the process-start time plus i - 1, and *)
(* every attempt sends its call's nonce.                                   *)
(***************************************************************************)
Signed == {c \in DOMAIN calls : calls[c].nonce # Unsigned}

C7_NonceStrictlyIncreasing ==
    /\ \A c \in Signed : calls[c].nonce = StartTime + c - 1
    /\ \A c, d \in Signed : c < d => calls[c].nonce < calls[d].nonce
    /\ \A k \in DOMAIN attempts : attempts[k].nonce = calls[attempts[k].call].nonce

\* A second call has sent its nonce after the first call's retried attempts.
C7_Witness ==
    /\ Cardinality(Signed) >= 2
    /\ \E k \in DOMAIN attempts : attempts[k].call = 2
    /\ Cardinality(AttemptsOf(1)) >= 2

(***************************************************************************)
(* Histories of Spec read by the claims: the events of the running cycle.  *)
(***************************************************************************)
Events(op, p) == SelectSeq(log, LAMBDA e : e.op = op /\ e.cur = p)

RECURSIVE SumAmounts(_)
SumAmounts(events) ==
    IF events = <<>> THEN 0
    ELSE Head(events).amount + SumAmounts(Tail(events))

PassDone(p) == Events("done", p) # <<>>

AtRate(events, r) == SelectSeq(events, LAMBDA e : e.rate = r)

Passes == {"USD", "BTC"}

(***************************************************************************)
(* C8: in every completed adjust_offers pass the amounts of the new offers *)
(* submitted plus the amounts of the buckets reported as skipped equal the *)
(* remaining amounts the exchange returned for the offers cancelled in the *)
(* pass, also when an offer was partly filled after get_offers.            *)
(***************************************************************************)
C8_FundsConserved ==
    \A p \in Passes :
        PassDone(p) =>
            SumAmounts(Events("new", p)) + SumAmounts(Events("skip", p))
                = SumAmounts(Events("cancel", p))

\* A pass is complete in which the exchange returned less for a cancelled
\* offer than get_offers had reported, and a new offer was submitted.
C8_Witness ==
    \E p \in Passes :
        /\ PassDone(p)
        /\ Events("new", p) # <<>>
        /\ \E k \in DOMAIN log :
              /\ log[k].op = "cancel"
              /\ log[k].cur = p
              /\ log[k].amount < log[k].local

(***************************************************************************)
(* C9: in one pass at most one new offer is submitted per target rate, and *)
(* its amount is the sum of the amounts returned for exactly the cancelled *)
(* offers whose new rate is that rate.  With minRate 0, decrement 1 and    *)
(* two offers at 5 and 4, both two intervals old, the buckets are 3 and 2, *)
(* each with its own offer's amount.                                       *)
(***************************************************************************)
TwoIntervalsOld(e) ==
    (e.at - e.submitted_at) \div USD_RATE_REDUCTION_INTERVAL = 2

C9_OneOfferPerRate ==
    \A p \in Passes :
        LET new == Events("new", p)
            cancel == Events("cancel", p)
        IN  /\ \A i, j \in DOMAIN new : i # j => new[i].rate # new[j].rate
            /\ \A i \in DOMAIN new :
                  new[i].amount = SumAmounts(AtRate(cancel, new[i].rate))
            /\ (p = "USD" /\ PassDone(p) /\ Len(cancel) = 2
                  /\ cancel[1].old = 5 /\ cancel[2].old = 4
                  /\ TwoIntervalsOld(cancel[1]) /\ TwoIntervalsOld(cancel[2]))
               => /\ cancel[1].rate = 3
                  /\ cancel[2].rate = 2
                  /\ \A k \in 1..2 :
                        IF cancel[k].amount > USD_MINIMUM_LEND_AMOUNT
                        THEN /\ Len(AtRate(new, cancel[k].rate)) = 1
                             /\ AtRate(new, cancel[k].rate)[1].amount = cancel[k].amount
                        ELSE AtRate(new, cancel[k].rate) = <<>>

\* The scenario of the claim: offers at 5 and 4, two intervals old, are
\* replaced by offers at 3 and 2; and, in another run, two offers that
\* decay to the same rate are replaced by one offer with the summed amount.
C9_Witness ==
    LET new == Events("new", "USD")
        cancel == Events("cancel", "USD")
    IN  /\ PassDone("USD")
        /\ Len(cancel) = 2
        /\ \/ /\ cancel[1].old = 5 /\ cancel[2].old = 4
              /\ TwoIntervalsOld(cancel[1]) /\ TwoIntervalsOld(cancel[2])
              /\ Len(new) = 2
              /\ new[1].rate = 3 /\ new[2].rate = 2
           \/ /\ cancel[1].old # cancel[2].old
              /\ cancel[1].rate = cancel[2].rate
              /\ Len(new) = 1
              /\ new[1].amount = cancel[1].amount + cancel[2].amount

(***************************************************************************)
(* C10: a bucket of a pass produces a new_offer request if and only if its *)
(* amount is strictly greater than minimum_amount; for an amount below or  *)
(* equal to it a skip is reported and nothing is submitted.  So every      *)
(* offer a rebalancing pass creates has an amount above the minimum.       *)
(***************************************************************************)
MinimumOf(p) ==
    IF p = "USD" THEN USD_MINIMUM_LEND_AMOUNT ELSE BTC_MINIMUM_LEND_AMOUNT

C10_NewOfferIffAboveMinimum ==
    \A p \in Passes :
        LET new == Events("new", p)
            skip == Events("skip", p)
            cancel == Events("cancel", p)
            rates == {cancel[k].rate : k \in DOMAIN cancel}
        IN  /\ \A i \in DOMAIN new : new[i].amount > MinimumOf(p)
            /\ \A i \in DOMAIN skip : skip[i].amount <= MinimumOf(p)
            /\ PassDone(p) =>
                  \A r \in rates :
                      LET amount == SumAmounts(AtRate(cancel, r))
                      IN  /\ Len(AtRate(new, r)) = (IF amount > MinimumOf(p) THEN 1 ELSE 0)
                          /\ Len(AtRate(skip, r)) = (IF amount > MinimumOf(p) THEN 0 ELSE 1)
                          /\ \A e \in {AtRate(skip, r)[i] : i \in DOMAIN AtRate(skip, r)} :
                                e.amount = amount

\* One bucket of a pass holds exactly the minimum and is skipped, another
\* is above it and is submitted.
C10_Witness ==
    \E p \in Passes :
        /\ PassDone(p)
        /\ \E i \in DOMAIN Events("skip", p) :
              Events("skip", p)[i].amount = MinimumOf(p)
        /\ Events("new", p) # <<>>

(***************************************************************************)
(* What the claims read of a direct call of get_new_rate.                  *)
(***************************************************************************)
RateCall == probe.op = "get_new_rate"

\* The currencies that have settings.
HasSettings(cur) == cur = "USD" \/ cur = "BTC"

Configured == RateCall /\ HasSettings(probe.offer.currency)

IntervalsElapsed ==
    (probe.at - probe.offer.submitted_at) \div probe.config.decrement_interval

(***************************************************************************)
(* C11: for an offer of a configured currency, in either copy of the       *)
(* class, get_new_rate returns None if and only if the offer's rate is at  *)
(* or below the minimum rate or less than one whole reduction interval has *)
(* passed since it was submitted.                                          *)
(***************************************************************************)
C11_NoneIffFloorOrYoung ==
    Configured =>
        (probe.result.kind = "None"
            <=> \/ probe.offer.rate <= probe.config.min_rate
                \/ IntervalsElapsed < 1)

(***************************************************************************)
(* C12: in cascadebot.py, with a decay multiplier of 1 and a decrement d,  *)
(* for an offer above the minimum rate that is k >= 1 intervals old,       *)
(* get_new_rate returns max(rate - k * d, minimum rate).                   *)
(***************************************************************************)
C12_LinearOnly ==
    (/\ Configured
     /\ probe.copy = "cascadebot"
     /\ probe.config.decay_multiplier = Ratio(1, 1)
     /\ probe.offer.rate > probe.config.min_rate
     /\ IntervalsElapsed >= 1)
    => probe.result
         = Returned("rate",
                    Max(probe.offer.rate
                          - IntervalsElapsed * probe.config.rate_decrement,
                        probe.config.min_rate),
                    "")

\* An offer three intervals old is lowered by three decrements and stays
\* above the minimum rate.
C12_Witness ==
    /\ Configured
    /\ probe.copy = "cascadebot"
    /\ probe.config.decay_multiplier = Ratio(1, 1)
    /\ probe.config.rate_decrement > 0
    /\ IntervalsElapsed = 3
    /\ probe.result.kind = "rate"
    /\ probe.result.rate
         = probe.offer.rate - 3 * probe.config.rate_decrement
    /\ probe.result.rate > probe.config.min_rate

(***************************************************************************)
(* C19: every rate get_new_rate returns is at or above the minimum rate,   *)
(* for any number of elapsed intervals, any decrement >= 0 and any decay   *)
(* multiplier from 0 to 1; so no rebalancing pass, which offers at the     *)
(* rate returned, offers below the minimum rate.                           *)
(***************************************************************************)
C19_NeverBelowMinimum ==
    (RateCall /\ probe.result.kind = "rate")
        => probe.result.rate >= probe.config.min_rate

\* The reduction went below the minimum rate and the result is the
\* minimum rate; the multiplier was a proper fraction.
C19_Witness ==
    /\ RateCall
    /\ probe.result.kind = "rate"
    /\ probe.config.decay_multiplier = Ratio(1, 2)
    /\ probe.config.min_rate > 0
    /\ linear(probe.offer.rate, IntervalsElapsed, probe.config)
         < probe.config.min_rate
    /\ probe.result.rate = probe.config.min_rate

(***************************************************************************)
(* C20: the rate get_new_rate returns for an offer is strictly lower than  *)
(* the offer's rate, for every setting with a decrement >= 0 and a decay   *)
(* multiplier above 0 and at most 1; so adjust_offers, which cancels every *)
(* offer for which a rate is returned, never cancels an offer to offer the *)
(* funds again at the same rate.                                           *)
(***************************************************************************)
C20_CancelOnlyToLower ==
    (/\ RateCall
     /\ probe.result.kind = "rate"
     /\ probe.config.rate_decrement >= 0
     /\ probe.config.decay_multiplier.num > 0)
    => probe.result.rate < probe.offer.rate

(***************************************************************************)
(* C17: get_offers returns exactly the entries of the response with        *)
(* direction "lend" and a rate that is not zero: each of them is in        *)
(* exactly one of the two sequences, every other entry is in neither, and  *)
(* each sequence is in the order of the response.                          *)
(***************************************************************************)
Occurrences(seq, id) == Cardinality({k \in DOMAIN seq : seq[k].id = id})

InResponseOrder(seq) ==
    \A i, j \in DOMAIN seq : i < j => seq[i].id < seq[j].id

C17_ExactlyTheFixedLendOffers ==
    probe.op = "get_offers" =>
        LET data == probe.offers_data
            usd_result == probe.result[1]
            btc_result == probe.result[2]
        IN  /\ \A k \in DOMAIN data :
                  Occurrences(usd_result, data[k].id)
                      + Occurrences(btc_result, data[k].id)
                    = IF data[k].direction = "lend" /\ Decimal(data[k].rate) # 0
                      THEN 1 ELSE 0
            /\ InResponseOrder(usd_result)
            /\ InResponseOrder(btc_result)

(***************************************************************************)
(* C16: get_new_rate fails for every offer whose currency is neither "USD" *)
(* nor "BTC", also for one at the minimum rate or just submitted; an       *)
(* adjust_offers that meets such an offer ends with that failure, leaves   *)
(* the offer open and submits no new offer.                                *)
(***************************************************************************)
C16_UnrecognizedCurrencyFails ==
    /\ gpc = "cancel" => \A k \in 1..(idx - 1) : HasSettings(offers[k].currency)
    /\ gpc = "create" => \A k \in DOMAIN offers : HasSettings(offers[k].currency)
    /\ (gpc = "raised" /\ ~HasSettings(offers[idx].currency))
         => /\ Active(offers[idx].id)
            /\ log[Len(log)].op = "raise"
            /\ Events("new", pass) = <<>>

\* adjust_offers cancelled an offer and then met one of another currency
\* that is at the minimum rate and was submitted this second.
C16_Witness ==
    /\ gpc = "raised"
    /\ ~HasSettings(offers[idx].currency)
    /\ offers[idx].rate = USD_MINIMUM_RATE_PERCENT
    /\ offers[idx].submitted_at = now
    /\ Events("cancel", pass) # <<>>

(***************************************************************************)
(* What the claims read of the running poll cycle.                         *)
(***************************************************************************)
Failed == log # <<>> /\ log[Len(log)].op \in {"raise", "refused"}

\* The deposit balance of a currency when the cycle asked for the balances.
Balance(p) ==
    LET asked == SelectSeq(log, LAMBDA e : e.op = "balances")
    IN  IF p = "USD" THEN asked[1].amount ELSE asked[1].local

StartRate(p) ==
    IF p = "USD" THEN USD_START_RATE_PERCENT ELSE BTC_START_RATE_PERCENT

(***************************************************************************)
(* C15: when a request of a poll cycle ends in a fatal error, go() ends:   *)
(* no further request is issued in the cycle and no further cycle starts.  *)
(***************************************************************************)
C15_FatalErrorEndsGo ==
    /\ [](Failed => gpc = "raised")
    /\ [][Failed => (log' = log /\ cycles' = cycles /\ gpc' = gpc)]_vars

\* A request failed after the cycle had cancelled an offer.
C15_Witness ==
    /\ Failed
    /\ \E k \in DOMAIN log : log[k].op = "cancel"

(***************************************************************************)
(* C18: in the poll loop of either copy the amount of the starting-rate    *)
(* offer of a currency is the available balance of that currency's         *)
(* deposit wallet, 0 when the wallet has no entry.                         *)
(***************************************************************************)
C18_StartOfferIsDepositBalance ==
    \A k \in DOMAIN log :
        log[k].op \in {"start", "refused"} => log[k].amount = Balance(log[k].cur)

(***************************************************************************)
(* C14 as stated: the funds of a bucket that a pass skipped are in no      *)
(* offer submitted during the rest of the same poll cycle.                 *)
(***************************************************************************)
C14_SkippedFundsWaitForLaterCycle ==
    \A p \in Passes :
        Events("skip", p) # <<>> => Events("start", p) = <<>>

(***************************************************************************)
(* C14 as amended: the funds of a skipped bucket are in no new offer of    *)
(* the pass and in no other bucket; an offer that holds them is made by    *)
(* the balance check at the starting rate, in the same poll cycle when the *)
(* available balance reaches the minimum amount and not in this cycle      *)
(* otherwise.                                                              *)
(***************************************************************************)
C14_SkippedFundsGoToBalanceCheck ==
    \A p \in Passes :
        LET skip == Events("skip", p)
            new == Events("new", p)
            start == Events("start", p)
        IN  skip # <<>> =>
              /\ \A i \in DOMAIN skip : AtRate(new, skip[i].rate) = <<>>
              /\ PassDone(p) =>
                    SumAmounts(new) + SumAmounts(skip)
                        = SumAmounts(Events("cancel", p))
              /\ \A i \in DOMAIN start :
                    /\ start[i].rate = StartRate(p)
                    /\ start[i].amount >= SumAmounts(skip)
              /\ gpc = "sleep" =>
                    (start # <<>> <=> Balance(p) >= MinimumOf(p))

\* A cycle ends in which a pass skipped a bucket and the balance check
\* offered the funds at the starting rate.
C14_Witness ==
    \E p \in Passes :
        /\ gpc = "sleep"
        /\ Events("skip", p) # <<>>
        /\ Events("start", p) # <<>>
        /\ Balance(p) = MinimumOf(p)

(***************************************************************************)
(* C13: funds the first cycle placed in an offer at the starting rate,     *)
(* with an amount of at least the minimum, are in an offer at the minimum  *)
(* rate once the poll loop has run the cycles that lower the starting rate *)
(* to the minimum rate, one decrement a cycle, unless a request failed or  *)
(* a borrower took funds; and no offer is replaced by one at a higher      *)
(* rate.                                                                   *)
(***************************************************************************)
\* The cycles that take an offer from the starting rate to the minimum rate
\* when every poll finds it one reduction interval older.
LoweringCycles(cur) ==
    (StartRate(cur) - DecayConfig(cur).min_rate) \div DecayConfig(cur).rate_decrement

Lowered(cur) ==
    \E k \in DOMAIN ex_offers :
        /\ ex_offers[k].currency = cur
        /\ Decimal(ex_offers[k].rate) = DecayConfig(cur).min_rate
        /\ ex_offers[k].remaining_amount >= first_placed[cur]

C13_ProgressiveLowering ==
    /\ \A cur \in Passes :
          (/\ client = "cascadebot"
           /\ first_placed[cur] >= MinimumOf(cur)
           /\ cycles > LoweringCycles(cur)
           /\ fills = 0
           /\ gpc # "raised")
          => Lowered(cur)
    /\ \A k \in DOMAIN log : log[k].op = "cancel" => log[k].rate <= log[k].old

(***************************************************************************)
(* C21: a completed adjust_offers pass has issued exactly one cancel       *)
(* request for each offer it was given for which get_new_rate returned a   *)
(* rate, none for an offer for which it returned None, which stays open,   *)
(* exactly one new_offer request for each bucket above the minimum, and no *)
(* other request; a pass over no offers issues no request.                 *)
(***************************************************************************)
GivenTo(p) == IF p = "USD" THEN usd_offers ELSE btc_offers

Decayed(offer, t) == get_new_rate(offer, t).kind = "rate"

CancelsOf(p, id) ==
    Cardinality({i \in DOMAIN Events("cancel", p) : Events("cancel", p)[i].id = id})

\* The position in the log at which the pass of p ended.
DoneAt(p) == CHOOSE k \in DOMAIN log : log[k].op = "done" /\ log[k].cur = p

C21_OneRequestPerOfferAndBucket ==
    \A p \in Passes :
        PassDone(p) =>
            LET given == GivenTo(p)
                t == log[DoneAt(p)].at
                cancel == Events("cancel", p)
                new == Events("new", p)
                rates == {cancel[i].rate : i \in DOMAIN cancel}
                above == {r \in rates : SumAmounts(AtRate(cancel, r)) > MinimumOf(p)}
            IN  /\ \A k \in DOMAIN given :
                      IF Decayed(given[k], t)
                      THEN CancelsOf(p, given[k].id) = 1
                      ELSE CancelsOf(p, given[k].id) = 0 /\ Active(given[k].id)
                /\ Len(cancel)
                     = Cardinality({k \in DOMAIN given : Decayed(given[k], t)})
                /\ \A r \in rates :
                      Len(AtRate(new, r)) = (IF r \in above THEN 1 ELSE 0)
                /\ Len(new) = Cardinality(above)
                /\ \A k \in 1..(DoneAt(p) - 1) :
                      log[k].cur = p => log[k].op \in {"cancel", "new", "skip"}
                /\ given = <<>> => cancel = <<>> /\ new = <<>>

\* A pass is complete in which one offer was at the minimum rate and stayed
\* open and another was cancelled and offered again.
C21_Witness ==
    \E p \in Passes :
        /\ PassDone(p)
        /\ \E k \in DOMAIN GivenTo(p) :
              /\ ~Decayed(GivenTo(p)[k], log[DoneAt(p)].at)
              /\ Active(GivenTo(p)[k].id)
        /\ Events("cancel", p) # <<>>
        /\ Events("new", p) # <<>>

(***************************************************************************)
(* C22: the requests of a poll cycle come in this order: one list-offers   *)
(* request, the cancels and new offers of the USD pass, those of the BTC   *)
(* pass, one balances request, the starting-rate offer for USD, the one    *)
(* for BTC.  The balances are asked for, and a starting-rate offer is      *)
(* submitted, only after the pass of every enabled currency is complete,   *)
(* and a pass runs only for a currency whose flag is set.                  *)
(***************************************************************************)
PassOps == {"cancel", "new", "skip", "done", "raise"}

StartOps == {"start", "refused"}

\* The place of an event in the order of a cycle.
Rank(e) ==
    IF e.op = "list" THEN 0
    ELSE IF e.op \in PassOps /\ e.cur = "USD" THEN 1
    ELSE IF e.op \in PassOps /\ e.cur = "BTC" THEN 2
    ELSE IF e.op = "balances" THEN 3
    ELSE IF e.op \in StartOps /\ e.cur = "USD" THEN 4
    ELSE IF e.op \in StartOps /\ e.cur = "BTC" THEN 5
    ELSE IF Len(log) > 1 THEN 3 ELSE 0   \* a failed balances or list request

Count(op) == Len(SelectSeq(log, LAMBDA e : e.op = op))

C22_CycleOrder ==
    /\ \A i, j \in DOMAIN log : i < j => Rank(log[i]) <= Rank(log[j])
    /\ Count("list") <= 1
    /\ Count("balances") <= 1
    /\ (log # <<>> /\ ~Failed) => log[1].op = "list"
    /\ \A k \in DOMAIN log :
          /\ log[k].op \in {"balances"} \cup StartOps
                => \A p \in Passes : lend[p] => PassDone(p)
          /\ log[k].op \in StartOps => Count("balances") = 1
          /\ (log[k].op \in PassOps /\ log[k].cur \in Passes) => lend[log[k].cur]
    /\ gpc = "sleep" => Count("list") = 1 /\ Count("balances") = 1

\* A cycle is complete in which only the USD flag is set: the USD pass
\* cancelled and offered again, nothing was asked about the BTC offer, and
\* the balance check offered USD at the starting rate.
C22_Witness ==
    /\ gpc = "sleep"
    /\ lend["USD"] /\ ~lend["BTC"]
    /\ Events("cancel", "USD") # <<>>
    /\ Events("new", "USD") # <<>>
    /\ Events("start", "USD") # <<>>
    /\ \E k \in DOMAIN ex_offers : ex_offers[k].currency = "BTC"

(***************************************************************************)
(* C23 (as claimed): a send ends, by returning or raising, exactly when an *)
(* attempt yields a response that is not a retryable failure (a connection *)
(* failure or HTTP 500); after every retryable failure it has slept, the   *)
(* n-th time for 2^(n-1) seconds, and is still running.                    *)
(***************************************************************************)
C23_RetriesUntilAnswered ==
    \A c \in DOMAIN calls :
        LET tried == AttemptsOf(c)
            failures == {k \in tried : FailedRetryably(k)}
        IN  /\ Finished(c) <=> (tried # {} /\ ~FailedRetryably(LastAttemptOf(c)))
            /\ Len(calls[c].sleeps) = Cardinality(failures)
            /\ \A n \in DOMAIN calls[c].sleeps : calls[c].sleeps[n] = 2 ^ (n - 1)

(***************************************************************************)
(* C24 (as claimed): in cascadebot.py, with a decrement of 0 and a decay   *)
(* multiplier m with 0 < m < 1, for an offer above the minimum rate that   *)
(* is k >= 1 intervals old get_new_rate returns a rate that is at least    *)
(* the minimum rate, equals (rate - minimum) * m^k + minimum, which is     *)
(* above the minimum, and is lower than the rate it returned one interval  *)
(* earlier and higher than the one it returns one interval later.          *)
(***************************************************************************)
ExponentialOnly ==
    /\ Configured
    /\ probe.copy = "cascadebot"
    /\ probe.config.rate_decrement = 0
    /\ probe.config.decay_multiplier.num > 0
    /\ probe.config.decay_multiplier.num < probe.config.decay_multiplier.den
    /\ probe.offer.rate > probe.config.min_rate
    /\ IntervalsElapsed >= 1

\* What get_new_rate returns for the probed offer after k intervals.
RateAfter(k) ==
    get_new_rate_under(probe.offer,
                       probe.offer.submitted_at + k * probe.config.decrement_interval,
                       probe.config)

C24_ExponentialOnly ==
    ExponentialOnly =>
        LET m == probe.config.decay_multiplier
            k == IntervalsElapsed
            min_rate == probe.config.min_rate
        IN  /\ probe.result.kind = "rate"
            /\ probe.result.rate >= min_rate
            /\ probe.result.rate * m.den ^ k
                 = (probe.offer.rate - min_rate) * m.num ^ k + min_rate * m.den ^ k
            /\ probe.result = RateAfter(k)
            /\ RateAfter(k + 1).kind = "rate"
            /\ RateAfter(k + 1).rate < probe.result.rate
            /\ probe.result.rate < probe.offer.rate

(***************************************************************************)
(* C25: all HTTP attempts of one call of _request send the same nonce, the *)
(* one drawn before the retry loop, so a retried attempt sends a nonce     *)
(* that was sent before; and the counter has advanced by exactly 1 for     *)
(* each call that drew a nonce, however many attempts the calls made.      *)
(***************************************************************************)
C25_OneNoncePerRequest ==
    /\ \A k, j \in DOMAIN attempts :
          attempts[k].call = attempts[j].call => attempts[k].nonce = attempts[j].nonce
    /\ \A k \in DOMAIN attempts :
          /\ attempts[k].call \in Signed
          /\ attempts[k].nonce = calls[attempts[k].call].nonce
    /\ nonce = StartTime + Cardinality(Signed)

\* Two calls are finished, the first after three attempts and the second
\* after two, and the counter is two above its start.
C25_Witness ==
    /\ rpc = "idle"
    /\ Len(calls) = 2
    /\ Cardinality(AttemptsOf(1)) = 3
    /\ Cardinality(AttemptsOf(2)) = 2
    /\ nonce = StartTime + 2

(***************************************************************************)
(* C26: within one adjust_offers pass every cancel request comes before    *)
(* every new_offer request (and every skip message): when the first new    *)
(* offer is submitted, get_new_rate has been evaluated for every offer of  *)
(* the pass and each one that decayed has been cancelled.                  *)
(***************************************************************************)
C26_CancelsBeforeCreates ==
    /\ \A i, j \in DOMAIN log :
          (i < j /\ log[i].cur = log[j].cur /\ log[i].op \in {"new", "skip"})
              => log[j].op # "cancel"
    /\ \A k \in DOMAIN log :
          log[k].op \in {"new", "skip"} =>
              \A n \in DOMAIN GivenTo(log[k].cur) :
                  Decayed(GivenTo(log[k].cur)[n], log[k].at)
                      => CancelsOf(log[k].cur, GivenTo(log[k].cur)[n].id) = 1
    /\ gpc = "create" =>
          \A n \in DOMAIN offers : Decayed(offers[n], now) => ~Active(offers[n].id)

\* The pass has cancelled two offers that decayed to different rates and
\* has submitted the first of the two new offers.
C26_Witness ==
    /\ gpc = "create"
    /\ Len(Events("cancel", pass)) = 2
    /\ Len(new_offer_amounts) = 2
    /\ Len(Events("new", pass)) = 1

(***************************************************************************)
(* C27: when a request of an adjust_offers pass fails fatally after the    *)
(* pass has cancelled one or more offers, the cancelled offers stay        *)
(* cancelled, the funds of the buckets not yet submitted lie in the        *)
(* available balance and are in no offer, and nothing is submitted for     *)
(* them afterwards.                                                        *)
(***************************************************************************)
FailedInPass(p) ==
    /\ gpc = "raised"
    /\ log[Len(log)].op = "raise"
    /\ log[Len(log)].cur = p
    /\ Events("cancel", p) # <<>>

\* The cancelled funds of the pass that went neither into a new offer nor
\* into a skipped bucket.
Unsubmitted(p) ==
    SumAmounts(Events("cancel", p))
        - SumAmounts(Events("new", p)) - SumAmounts(Events("skip", p))

C27_NotAtomicUnderFailure ==
    /\ [](\A p \in Passes :
            FailedInPass(p) =>
                /\ \A k \in DOMAIN log :
                      (log[k].op = "cancel" /\ log[k].cur = p) => ~Active(log[k].id)
                /\ Unsubmitted(p) > 0
                /\ ex_available[p] >= Unsubmitted(p) + SumAmounts(Events("skip", p))
                /\ Events("start", p) = <<>>)
    /\ [][(\E p \in Passes : FailedInPass(p))
            => (ex_offers' = ex_offers /\ ex_available' = ex_available /\ log' = log)]_vars

\* A pass cancelled two offers, submitted the new offer of the first bucket,
\* and the new_offer request of the second bucket failed.
C27_Witness ==
    \E p \in Passes :
        /\ FailedInPass(p)
        /\ Len(Events("cancel", p)) = 2
        /\ Len(Events("new", p)) = 1
        /\ idx = 2

(***************************************************************************)
(* C28: in a poll cycle of cascadebot.py at most one starting-rate offer   *)
(* is submitted for a currency; it is submitted if and only if the         *)
(* currency's flag is set and its available balance is at least the        *)
(* minimum amount, for the whole available balance and at the start rate.  *)
(* So the funds of a bucket that a pass skipped because its amount equals  *)
(* the minimum are offered at the start rate in the same cycle.            *)
(***************************************************************************)
Submitted(p) == SelectSeq(log, LAMBDA e : e.op \in StartOps /\ e.cur = p)

C28_StartOfferPerCurrency ==
    client = "cascadebot" =>
        \A p \in Passes :
            LET submitted == Submitted(p)
                skip == Events("skip", p)
            IN  /\ Len(submitted) <= 1
                /\ \A i \in DOMAIN submitted :
                      /\ lend[p]
                      /\ Balance(p) >= MinimumOf(p)
                      /\ submitted[i].amount = Balance(p)
                      /\ submitted[i].rate = StartRate(p)
                /\ gpc = "sleep" =>
                      /\ Events("start", p) # <<>>
                            <=> (lend[p] /\ Balance(p) >= MinimumOf(p))
                      /\ \A i \in DOMAIN skip :
                            skip[i].amount = MinimumOf(p)
                                => /\ Len(Events("start", p)) = 1
                                   /\ Events("start", p)[1].amount >= skip[i].amount

\* A cycle is complete in which the USD pass skipped a bucket of exactly
\* the minimum amount and the balance check offered it at the start rate,
\* while nothing was offered of a sufficient BTC balance, BTC being off.
C28_Witness ==
    /\ client = "cascadebot"
    /\ gpc = "sleep"
    /\ lend["USD"] /\ ~lend["BTC"]
    /\ \E i \in DOMAIN Events("skip", "USD") :
          Events("skip", "USD")[i].amount = MinimumOf("USD")
    /\ Len(Events("start", "USD")) = 1
    /\ Events("start", "USD")[1].amount = MinimumOf("USD")
    /\ Balance("BTC") >= MinimumOf("BTC")
    /\ Submitted("BTC") = <<>>

====
